---- MODULE Spec2Model ----
(***************************************************************************)
(* A model of the <browserbox-webview> element (src/src/browserbox-webview *)
(* .js): the pending-request ledger, the readiness future, the liveness    *)
(* prober with its reload retries, the transport resolver and the legacy   *)
(* tab cache.                                                              *)
(*                                                                         *)
(* The element's fields, the iframe, the live timers and the suspended     *)
(* async calls are the fields of one record, st.  Every method of the      *)
(* class is an operator from a state record to a state record, so that a   *)
(* handler that calls other methods is the composition of their operators  *)
(* in the order of the source.  An action of the model is one turn of the  *)
(* event loop: a call by the host page, an event or timer callback, or the *)
(* continuation of an await.                                               *)
(***************************************************************************)
EXTENDS Integers, Sequences, FiniteSets, TLC

VARIABLES st

vars == <<st>>

(***************************************************************************)
(* Bounds of the model.                                                    *)
(***************************************************************************)
\* async calls the host page makes (each caller slot is used once)
MaxCallers == 2
\* distinct login links the host page may set
NumLinks == 1
\* distinct tab identifiers the peer reports
NumTabs == 3

(***************************************************************************)
(* Program constants.                                                      *)
(***************************************************************************)
iframeRetryMax == 5
iframeRetryPingThreshold == 10
RetryDelayStepMs == 2000
RetryDelayCapMs == 8000

Callers == 1..MaxCallers
Links == 1..NumLinks
TabIds == 1..NumTabs
\* the request ids the bounded callers can allocate: a call allocates at
\* most two (health: modern then legacy; callApi: probe then call)
MaxRequests == 2 * MaxCallers
RequestIds == 1..MaxRequests

\* the values of the parent-origin attribute, and the peer's own origin
Origins == {"*", "https://bbx.example"}
PeerOrigin == "https://bbx.example"

Min(a, b) == IF a < b THEN a ELSE b
Max(a, b) == IF a > b THEN a ELSE b

(***************************************************************************)
(* Observable effects of the current turn: posted messages, dispatched     *)
(* events, iframe.src assignments.  st.fx holds those of the last turn.    *)
(***************************************************************************)
Fx(ev, kind, n, m, k, to) ==
  [ev |-> ev, kind |-> kind, n |-> n, m |-> m, k |-> k, to |-> to]

Emit(s, e) == [s EXCEPT !.fx = @ \cup {e}]

\* new CustomEvent(kind, ...) dispatched on the element
DispatchEvent(s, kind, n, m, k) == Emit(s, Fx("event", kind, n, m, k, ""))

\* a turn starts with no effects
Begin(s) == [s EXCEPT !.fx = {}]

(***************************************************************************)
(* A suspended async call of the host page: the method it runs (op), where *)
(* it is suspended (pc), which request it awaits (req, and stage: what the *)
(* request is for) and how its last awaited promise settled (out, and      *)
(* value: <<v>> when it resolved with the array v).  A callApi has a       *)
(* method and its first argument (arg, <<>>: none); a legacy handler that  *)
(* has returned v leaves <<v>> in value.  The polling handlers keep their  *)
(* deadline, compared with the clock st.now.  History: old marks a request *)
(* that was in flight when the peer reloaded.                              *)
(*   sleeping       awaiting the setTimeout between two polls              *)
(*   waitReady      awaiting Promise.race([this._readyPromise, timeout])   *)
(*   waitOrphan     the same, on a ready promise that has been replaced    *)
(*   readyReleased  the race resolved, the continuation is queued          *)
(*   readyTimedOut  the race rejected, the continuation is queued          *)
(*   gateDone       _ensureReadyForApi() returned, continuation queued     *)
(*   reqWait        awaiting the promise of _request()                     *)
(*   reqSettled     that promise settled, the continuation is queued       *)
(*   transportResolved  _resolveTransport() returned, continuation queued  *)
(***************************************************************************)
IdleCaller ==
  [op |-> "none", pc |-> "idle", stage |-> "", req |-> 0, out |-> "",
   method |-> "createTab", arg |-> <<>>, value |-> <<>>, deadline |-> 0,
   old |-> FALSE]

\* constructor(): the fields as the constructor leaves them; the element is
\* not yet connected, the iframe has no src.
Constructed(origin) ==
  [ requestSeq |-> 0,
    pending |-> {},
    apiMethods |-> {},
    isReady |-> FALSE,
    readyResolved |-> FALSE,
    initPingTimer |-> FALSE,
    transportMode |-> "unknown",
    legacyTabsCache |-> <<>>,
    iframeRetryCount |-> 0,
    initPingCount |-> 0,
    reconnectStopped |-> FALSE,
    \* the host element and its iframe
    connected |-> FALSE,
    loginLink |-> 0,
    src |-> 0,
    loadPending |-> FALSE,
    parentOrigin |-> origin,
    \* Date.now(), in units of the polling interval
    now |-> 0,
    \* live timers
    reqTimers |-> {},
    retryTimer |-> <<>>,
    \* promises of the requests: how often resolve or reject was called
    settleCalls |-> [i \in RequestIds |-> 0],
    \* suspended async calls
    callers |-> [c \in Callers |-> IdleCaller],
    fx |-> {},
    \* history
    sessionProbes |-> 0,
    stopArmed |-> FALSE,
    retriesDone |-> 0,
    life |-> [t \in TabIds |-> "new"] ]

\* get parentOrigin()
parentOriginOf(s) == s.parentOrigin

\* _allowedOrigin()
AllowedOrigin(s) ==
  IF parentOriginOf(s) # "" /\ parentOriginOf(s) # "*" THEN parentOriginOf(s) ELSE "*"

\* a faulty _validateIncomingOrigin: it accepts any origin
ValidateIncomingOriginAny(s, origin) == TRUE

\* _validateIncomingOrigin(origin)
ValidateIncomingOrigin(s, origin) ==
  AllowedOrigin(s) = "*" \/ origin = AllowedOrigin(s)

\* iframe.contentWindow: the iframe has a window while it is in a document
HasContentWindow(s) == s.connected

\* _postRaw(message)
PostRaw(s, type) ==
  IF ~HasContentWindow(s) THEN s
  ELSE Emit(s, Fx("post", type, 0, 0, 0, AllowedOrigin(s)))

\* _assignIframeSrc(nextSrc, reason): the browser navigates the iframe, and a
\* load event follows when the iframe is in a document
AssignIframeSrc(s, nextSrc, reason) ==
  Emit([s EXCEPT !.src = nextSrc,
                 !.loadPending = s.connected],
       Fx("assign", reason, nextSrc, 0, 0, ""))

\* _stopInitPing()
StopInitPing(s) ==
  IF s.initPingTimer THEN [s EXCEPT !.initPingTimer = FALSE] ELSE s

\* _resetReadyPromise(): the callers awaiting the replaced promise stay on
\* it; if it was not resolved, nothing can resolve it any more
ResetReadyPromise(s) ==
  [s EXCEPT !.readyResolved = FALSE,
            !.callers = [c \in Callers |->
               IF s.callers[c].pc = "waitReady"
               THEN [s.callers[c] EXCEPT !.pc = "waitOrphan"]
               ELSE s.callers[c]]]

\* this._resolveReady(true): releases the callers awaiting the promise
ResolveReady(s) ==
  [s EXCEPT !.readyResolved = TRUE,
            !.callers = [c \in Callers |->
               IF s.callers[c].pc = "waitReady"
               THEN [s.callers[c] EXCEPT !.pc = "readyReleased"]
               ELSE s.callers[c]]]

\* _setReady()
SetReady(s) ==
  IF ~s.isReady
  THEN ResolveReady(StopInitPing(
         [s EXCEPT !.isReady = TRUE,
                   !.iframeRetryCount = 0,
                   !.reconnectStopped = FALSE]))
  ELSE s

\* pending.resolve(data) (out "ok", "ok methods") or pending.reject(error)
\* (out "error", with the error's reason) of request id, called by a
\* response, a timeout or a cancellation: the caller awaiting the promise is
\* resumed by its first settlement
SettlePromise(s, id, by, out, reason) ==
  Emit([s EXCEPT !.settleCalls[id] = Min(@ + 1, 2),
                 !.callers = [c \in Callers |->
                    IF s.callers[c].pc = "reqWait" /\ s.callers[c].req = id
                    THEN [s.callers[c] EXCEPT !.pc = "reqSettled", !.req = 0, !.out = out]
                    ELSE s.callers[c]]],
       Fx("settle", by, id, 0, 0, reason))

RECURSIVE RejectEach(_, _, _)
RejectEach(s, ids, reason) ==
  IF ids = {} THEN s
  ELSE LET id == CHOOSE i \in ids : \A j \in ids : i <= j
           cleared == [s EXCEPT !.reqTimers = @ \ {id}]
       IN RejectEach(SettlePromise(cleared, id, "cancel", "error", reason), ids \ {id}, reason)

\* a faulty _rejectPending: it rejects every entry and clears the ledger
\* but leaves the entries' timers running
RejectPendingKeepTimers(s, reason) ==
  LET rejected == RejectEach(s, s.pending, reason)
  IN [rejected EXCEPT !.pending = {}, !.reqTimers = s.reqTimers]

\* _rejectPending(error)
RejectPending(s, reason) ==
  LET rejected == RejectEach(s, s.pending, reason)
  IN [rejected EXCEPT !.pending = {}]

\* _startInitPing()
StartInitPing(s) ==
  IF s.reconnectStopped THEN s
  ELSE LET stopped == StopInitPing(s)
           zeroed == [stopped EXCEPT !.initPingCount = 0]
           posted == PostRaw(zeroed, "init")
       IN [posted EXCEPT !.initPingTimer = TRUE]

\* a faulty backoff: the delay grows without its cap
RetryDelayUncapped(count) == RetryDelayStepMs * count

\* Math.min(2000 * this._iframeRetryCount, 8000)
RetryDelay(count) == Min(RetryDelayStepMs * count, RetryDelayCapMs)

\* _retryIframeLoad()
RetryIframeLoad(s) ==
  LET stopped == StopInitPing(s)
      counted == [stopped EXCEPT !.iframeRetryCount = @ + 1]
      src == counted.src
      delay == RetryDelay(counted.iframeRetryCount)
  IN IF src = 0 THEN counted
     ELSE [DispatchEvent(counted, "iframe-retry", counted.iframeRetryCount,
                         iframeRetryMax, delay)
             EXCEPT !.retryTimer = <<[src |-> src, delay |-> delay, stale |-> FALSE,
                                      old |-> FALSE]>>]

\* a faulty stopReconnectAttempts: the pending requests are left alone
StopReconnectAttemptsKeepPending(s, reason) ==
  StopInitPing([s EXCEPT !.reconnectStopped = TRUE])

\* stopReconnectAttempts(reason)
StopReconnectAttempts(s, reason) ==
  RejectPending(StopInitPing([s EXCEPT !.reconnectStopped = TRUE]),
                "reconnect stopped")

\* a faulty interval callback: it retries at every threshold, whatever the
\* number of retries made
InitPingCallbackNoLimit(s) ==
  IF s.reconnectStopped THEN StopInitPing(s)
  ELSE IF s.isReady THEN StopInitPing(s)
  ELSE LET counted == [s EXCEPT !.initPingCount = @ + 1]
       IN IF counted.initPingCount >= iframeRetryPingThreshold
          THEN RetryIframeLoad(counted)
          ELSE PostRaw(counted, "init")

\* the setInterval callback of _startInitPing
InitPingCallback(s) ==
  IF s.reconnectStopped THEN StopInitPing(s)
  ELSE IF s.isReady THEN StopInitPing(s)
  ELSE LET counted == [s EXCEPT !.initPingCount = @ + 1]
       IN IF counted.initPingCount >= iframeRetryPingThreshold
          THEN IF counted.iframeRetryCount < iframeRetryMax
               THEN RetryIframeLoad(counted)
               ELSE LET stopped == StopReconnectAttempts(counted, "iframe-unresponsive")
                    IN DispatchEvent(stopped, "connect-failed",
                                     stopped.iframeRetryCount, iframeRetryMax, 0)
          ELSE PostRaw(counted, "init")

\* the setTimeout callback of _retryIframeLoad, with the src it captured
RetryTimerCallback(s, timer) ==
  IF s.isReady \/ s.reconnectStopped THEN s
  ELSE AssignIframeSrc(s, timer.src, "_retryIframeLoad")

\* _handleLoad()
HandleLoadEvent(s) ==
  LET needsReset == s.isReady
      cleared == [s EXCEPT !.isReady = FALSE,
                           !.apiMethods = {},
                           !.transportMode = "unknown",
                           !.legacyTabsCache = <<>>,
                           !.initPingCount = 0]
      reset == IF needsReset
               THEN ResetReadyPromise([cleared EXCEPT !.iframeRetryCount = 0])
               ELSE cleared
  IN StartInitPing(reset)

\* _normalizeUrl(url): the links of the model are normalized URLs
NormalizeUrl(url) == url

\* _updateIframeSrcFromAttribute(trigger)
UpdateIframeSrcFromAttribute(s, trigger) ==
  IF s.loginLink = 0 THEN s
  ELSE IF NormalizeUrl(s.src) = NormalizeUrl(s.loginLink) THEN s
  ELSE AssignIframeSrc(s, s.loginLink, trigger)

\* attributeChangedCallback('login-link', oldValue, newValue), oldValue # newValue
LoginLinkChanged(s, newValue) ==
  LET set == [s EXCEPT !.loginLink = newValue]
      cleared == [set EXCEPT !.isReady = FALSE,
                             !.apiMethods = {},
                             !.transportMode = "unknown",
                             !.legacyTabsCache = <<>>,
                             !.iframeRetryCount = 0,
                             !.initPingCount = 0,
                             !.reconnectStopped = FALSE]
      rejected == RejectPending(ResetReadyPromise(cleared), "source changed")
  IN UpdateIframeSrcFromAttribute(rejected, "login-link")

\* connectedCallback(): the listeners are added and updateIframe() runs; the
\* iframe, now in a document, loads its src
ConnectedCallback(s) ==
  LET on == [s EXCEPT !.connected = TRUE, !.loadPending = (s.src # 0)]
  IN UpdateIframeSrcFromAttribute(on, "updateIframe")

\* disconnectedCallback(): the iframe leaves the document with the element
DisconnectedCallback(s) ==
  LET off == [s EXCEPT !.connected = FALSE, !.loadPending = FALSE]
  IN RejectPending(StopInitPing(off), "disconnected")

\* a faulty refresh(): it leaves the tab cache as it is
RefreshCallKeepCache(s) ==
  IF s.src = 0 THEN s
  ELSE LET cleared == [s EXCEPT !.isReady = FALSE,
                                !.apiMethods = {},
                                !.transportMode = "unknown",
                                !.reconnectStopped = FALSE]
           rejected == RejectPending(ResetReadyPromise(cleared), "refreshed")
       IN AssignIframeSrc(rejected, rejected.src, "refresh")

\* refresh()
RefreshCall(s) ==
  IF s.src = 0 THEN s
  ELSE LET cleared == [s EXCEPT !.isReady = FALSE,
                                !.apiMethods = {},
                                !.transportMode = "unknown",
                                !.legacyTabsCache = <<>>,
                                !.reconnectStopped = FALSE]
           rejected == RejectPending(ResetReadyPromise(cleared), "refreshed")
       IN AssignIframeSrc(rejected, rejected.src, "refresh")

(***************************************************************************)
(* The legacy tab cache.  A tab record carries the fields the peer sends:  *)
(* the identifier under any of id, tabId, targetId (0: field absent or an  *)
(* empty string), an index (<<>>: absent, <<i>>: the integer i) and a url  *)
(* (0: absent).                                                            *)
(***************************************************************************)
NoDetail == [id |-> 0, tabId |-> 0, targetId |-> 0, index |-> <<>>, url |-> 0]

\* a faulty _normalizeTabId: it does not look at targetId
NormalizeTabIdNoTarget(detail) ==
  IF detail.id # 0 THEN detail.id
  ELSE IF detail.tabId # 0 THEN detail.tabId
  ELSE 0

\* _normalizeTabId(detail): the first candidate that is a non-empty string
NormalizeTabId(detail) ==
  IF detail.id # 0 THEN detail.id
  ELSE IF detail.tabId # 0 THEN detail.tabId
  ELSE IF detail.targetId # 0 THEN detail.targetId
  ELSE 0

\* Array.prototype.findIndex over the cache; positions count from 0, -1: none
FindTabIndex(cache, tabId) ==
  IF \E i \in 1..Len(cache) : NormalizeTabId(cache[i]) = tabId
  THEN (CHOOSE i \in 1..Len(cache) :
          /\ NormalizeTabId(cache[i]) = tabId
          /\ \A j \in 1..(i - 1) : NormalizeTabId(cache[j]) # tabId) - 1
  ELSE -1

\* a ?? b ?? c on index fields
Coalesce(a, b, c) == IF a # <<>> THEN a ELSE IF b # <<>> THEN b ELSE c

\* { ...existing, ...detail }: the fields detail carries replace existing's
SpreadTab(existing, detail) ==
  [id |-> IF detail.id # 0 THEN detail.id ELSE existing.id,
   tabId |-> IF detail.tabId # 0 THEN detail.tabId ELSE existing.tabId,
   targetId |-> IF detail.targetId # 0 THEN detail.targetId ELSE existing.targetId,
   index |-> IF detail.index # <<>> THEN detail.index ELSE existing.index,
   url |-> IF detail.url # 0 THEN detail.url ELSE existing.url]

\* .map((tab, i) => ({ ...tab, index: i }))
Reindex(cache) == [i \in 1..Len(cache) |-> [cache[i] EXCEPT !.index = <<i - 1>>]]

\* _updateLegacyTabCache(detail)
UpdateLegacyTabCache(cache, detail) ==
  LET tabId == NormalizeTabId(detail)
      index == FindTabIndex(cache, tabId)
  IN IF tabId = 0 THEN cache
     ELSE IF index = -1 THEN cache
     ELSE LET existing == cache[index + 1]
          IN [cache EXCEPT ![index + 1] =
                [SpreadTab(existing, detail) EXCEPT
                   !.index = Coalesce(existing.index, detail.index, <<index>>)]]

\* Array.prototype.splice(start, 0, entry): a negative start counts from the
\* end, a start past the end appends
SpliceInsert(cache, start, entry) ==
  LET len == Len(cache)
      from == IF start < 0 THEN Max(len + start, 0) ELSE Min(start, len)
  IN SubSeq(cache, 1, from) \o <<entry>> \o SubSeq(cache, from + 1, len)

\* _addLegacyTabCache(detail)
AddLegacyTabCache(cache, detail) ==
  LET tabId == NormalizeTabId(detail)
      existingIndex == FindTabIndex(cache, tabId)
      index == IF detail.index # <<>> THEN detail.index[1] ELSE Len(cache)
      entry == [detail EXCEPT !.index = <<index>>]
  IN IF tabId = 0 THEN cache
     ELSE IF existingIndex # -1 THEN UpdateLegacyTabCache(cache, detail)
     ELSE Reindex(SpliceInsert(cache, Min(index, Len(cache)), entry))

\* a faulty _removeLegacyTabCache: it filters the entry out and does not
\* renumber the rest
RemoveLegacyTabCacheNoReindex(cache, detail) ==
  LET tabId == NormalizeTabId(detail)
  IN IF tabId = 0 THEN cache
     ELSE SelectSeq(cache, LAMBDA tab : NormalizeTabId(tab) # tabId)

\* _removeLegacyTabCache(detail)
RemoveLegacyTabCache(cache, detail) ==
  LET tabId == NormalizeTabId(detail)
  IN IF tabId = 0 THEN cache
     ELSE Reindex(SelectSeq(cache, LAMBDA tab : NormalizeTabId(tab) # tabId))

(***************************************************************************)
(* The pending-request ledger.                                             *)
(***************************************************************************)
\* _legacyMethodList()
LegacyMethodList ==
  {"getTabs", "getActiveTabIndex", "getTabCount", "createTab", "createTabs",
   "closeTab", "closeAllTabs", "switchToTab", "navigateTo", "navigateTab",
   "submitOmnibox", "reload", "goBack", "goForward", "stop", "evaluate",
   "waitForTabCount", "waitForTabUrl"}

\* a method list a modern peer advertises or returns
PeerMethodList == {"getTabs", "createTab", "getScreenMetrics"}

\* the caller c now awaits a promise that is already settled with out
Resume(s, c, stage, out) ==
  [s EXCEPT !.callers[c] = [@ EXCEPT !.pc = "reqSettled", !.stage = stage,
                                     !.req = 0, !.out = out]]

\* the async call of c has returned (out "ok") or thrown (out "error"): its
\* slot is spent
Finish(s, c, out) ==
  Emit([s EXCEPT !.callers[c] = [IdleCaller EXCEPT !.pc = "done"]],
       Fx(IF out = "error" THEN "throw" ELSE "return", s.callers[c].op, c, 0, 0, ""))

\* _request(type, data, options), awaited by caller c for stage
Request(s, c, type, stage) ==
  IF ~HasContentWindow(s) THEN Resume(s, c, stage, "error")
  ELSE LET requestId == s.requestSeq + 1
           stored == [s EXCEPT !.requestSeq = requestId,
                               !.reqTimers = @ \cup {requestId},
                               !.pending = @ \cup {requestId},
                               !.callers[c] = [@ EXCEPT !.pc = "reqWait",
                                                        !.stage = stage,
                                                        !.req = requestId,
                                                        !.out = "",
                                                        !.value = <<>>,
                                                        !.old = FALSE]]
       IN Emit(stored, Fx("post", type, requestId, 0, 0, AllowedOrigin(s)))

\* a faulty timeout callback: it rejects the promise and leaves the entry in
\* the ledger
RequestTimeoutCallbackKeepEntry(s, requestId) ==
  SettlePromise(s, requestId, "timeout", "error", "timed out")

\* the setTimeout callback of _request for requestId
RequestTimeoutCallback(s, requestId) ==
  SettlePromise([s EXCEPT !.pending = @ \ {requestId}], requestId, "timeout",
                "error", "timed out")

(***************************************************************************)
(* Inbound messages.  A message is [fromPeer, origin, type, requestId,     *)
(* error, methods, detail]: type "" is a payload whose type is no string,  *)
(* requestId 0 none, methods <<>> a payload whose data.methods is no array *)
(* and <<set>> one whose data.methods is the array set, detail the tab     *)
(* record in data.                                                         *)
(***************************************************************************)
Message(fromPeer, origin, type, requestId, error, methods, detail) ==
  [fromPeer |-> fromPeer, origin |-> origin, type |-> type,
   requestId |-> requestId, error |-> error, methods |-> methods,
   detail |-> detail]

TabTypes == {"tab-created", "tab-updated", "tab-closed"}

\* a response whose data is the array list of tab records
TabList(list) == [list |-> list]

\* pending.resolve(payload.data): the awaiting call receives the data
ResolveValue(s, m, settled) ==
  [settled EXCEPT !.callers = [c \in Callers |->
     IF s.callers[c].pc = "reqWait" /\ s.callers[c].req = m.requestId
     THEN [settled.callers[c] EXCEPT
             !.value = IF "list" \in DOMAIN m.detail THEN <<m.detail.list>>
                       ELSE IF m.detail # NoDetail THEN <<m.detail>>
                       ELSE <<>>]
     ELSE settled.callers[c]]]

\* _handleMessage(event)
HandleMessage(s, m) ==
  IF ~m.fromPeer THEN s
  ELSE IF ~ValidateIncomingOrigin(s, m.origin) THEN s
  ELSE IF m.type = "" THEN s
  ELSE IF m.requestId # 0 /\ m.requestId \in s.pending
  THEN LET taken == [s EXCEPT !.reqTimers = @ \ {m.requestId},
                              !.pending = @ \ {m.requestId}]
       IN IF m.error
          THEN SettlePromise(taken, m.requestId, "response", "error", "peer error")
          ELSE ResolveValue(s, m, SettlePromise(taken, m.requestId, "response",
                                                IF m.methods # <<>> /\ m.methods[1] # {}
                                                THEN "ok methods" ELSE "ok", ""))
  ELSE IF m.type = "tab-api-ready"
  THEN DispatchEvent(SetReady(s), "ready", 0, 0, 0)
  ELSE IF m.type = "bbx-api-ready"
  THEN LET advertised == IF m.methods # <<>>
                         THEN [s EXCEPT !.apiMethods = m.methods[1],
                                        !.transportMode = "modern"]
                         ELSE s
       IN DispatchEvent(SetReady(advertised), "api-ready", 0, 0, 0)
  ELSE LET cached ==
             IF m.type = "tab-updated"
             THEN [s EXCEPT !.legacyTabsCache = UpdateLegacyTabCache(@, m.detail)]
             ELSE IF m.type = "tab-created"
             THEN [s EXCEPT !.legacyTabsCache = AddLegacyTabCache(@, m.detail)]
             ELSE IF m.type = "tab-closed"
             THEN [s EXCEPT !.legacyTabsCache = RemoveLegacyTabCache(@, m.detail)]
             ELSE s
       IN DispatchEvent(cached, m.type, 0, 0, 0)

(***************************************************************************)
(* The async calls, cut at their awaits.                                   *)
(***************************************************************************)
\* whenReady({timeoutMs}) up to its await; api: called by _ensureReadyForApi
WhenReadyCall(s, c) ==
  IF s.isReady
  THEN Finish(s, c, "ok")
  ELSE [s EXCEPT !.callers[c].pc =
          IF s.readyResolved THEN "readyReleased" ELSE "waitReady"]

\* _ensureReadyForApi() up to its await
EnsureReadyForApi(s, c) ==
  IF s.isReady
  THEN [s EXCEPT !.callers[c].pc = "gateDone"]
  ELSE [s EXCEPT !.callers[c].pc =
          IF s.readyResolved THEN "readyReleased" ELSE "waitReady"]

\* the catch block of _ensureReadyForApi
EnsureReadyCatch(s, c) ==
  LET forced == DispatchEvent(SetReady(s), "ready-timeout", 0, 0, 0)
  IN [forced EXCEPT !.callers[c].pc = "gateDone"]

\* _resolveTransport() up to its await
ResolveTransport(s, c) ==
  IF s.transportMode # "unknown"
  THEN [s EXCEPT !.callers[c].pc = "transportResolved"]
  ELSE [Request(s, c, "bbx-api-call", "probe") EXCEPT
          !.sessionProbes = IF HasContentWindow(s) THEN @ + 1 ELSE @]

\* a faulty _resolveTransport: a failed probe is thrown to the caller
ResolveTransportRethrow(s, c) ==
  IF s.callers[c].out \in {"ok", "ok methods"}
  THEN [s EXCEPT !.transportMode = "modern", !.callers[c].pc = "transportResolved"]
  ELSE Finish(s, c, "error")

\* _resolveTransport() after its await
ResolveTransportSettled(s, c) ==
  LET moded == IF s.callers[c].out \in {"ok", "ok methods"}
               THEN [s EXCEPT !.transportMode = "modern"]
               ELSE [s EXCEPT !.transportMode = "legacy"]
  IN [moded EXCEPT !.callers[c].pc = "transportResolved"]

\* the async legacy handler of c has returned v
Return(s, c, v) ==
  Emit([s EXCEPT !.callers[c] = [IdleCaller EXCEPT !.pc = "done", !.value = <<v>>]],
       Fx("return", s.callers[c].method, c, 0, 0, ""))

\* _postRaw({ type, tabId, data: {} }); k numbers the posts of one turn
PostRawTab(s, type, tabId) ==
  IF ~HasContentWindow(s) THEN s
  ELSE Emit(s, Fx("post", type, 0, tabId,
                  Cardinality({e \in s.fx : e.ev = "post"}) + 1, AllowedOrigin(s)))

\* tabs.map((tab, index) => ({ index, ...tab })): the spread comes last
StampIndex(tabs) ==
  [i \in 1..Len(tabs) |->
     IF tabs[i].index # <<>> THEN tabs[i] ELSE [tabs[i] EXCEPT !.index = <<i - 1>>]]

\* _legacyHandlers.getTabs after its await, for caller c: the state it
\* leaves and the list it returns
GetTabsSettled(s, c) ==
  LET me == s.callers[c]
      tabs == IF me.out = "error" THEN <<s.legacyTabsCache>> ELSE me.value
  IN IF tabs = <<>> THEN [state |-> s, tabs |-> s.legacyTabsCache]
     ELSE [state |-> [s EXCEPT !.legacyTabsCache = StampIndex(tabs[1])],
           tabs |-> StampIndex(tabs[1])]

\* the loop of _legacyHandlers.closeAllTabs from position i down to keep
RECURSIVE CloseEach(_, _, _, _)
CloseEach(s, tabs, i, keep) ==
  IF i < keep THEN s
  ELSE LET tabId == IF tabs[i + 1].id # 0 THEN tabs[i + 1].id ELSE tabs[i + 1].targetId
       IN CloseEach(IF tabId = 0 THEN s ELSE PostRawTab(s, "closeTab", tabId),
                    tabs, i - 1, keep)

\* _legacyHandlers.closeAllTabs after `await getTabs`
CloseAllTabsSettled(s, c) ==
  LET arg == s.callers[c].arg
      keep == IF arg # <<>> THEN Max(0, arg[1]) ELSE 0
      got == GetTabsSettled(s, c)
      n == Len(got.tabs)
  IN IF n <= keep THEN Return(got.state, c, n)
     ELSE Return(CloseEach(got.state, got.tabs, n - 1, keep), c, Max(keep, 0))

\* the legacy handlers of getTabs and closeAllTabs after the getTabs request
LegacySettled(s, c) ==
  IF s.callers[c].method = "getTabs"
  THEN LET got == GetTabsSettled(s, c) IN Return(got.state, c, got.tabs)
  ELSE CloseAllTabsSettled(s, c)

\* the handlers closeTab and reload after `await resolveTabId(...)`: without
\* an identifier (0) they fail, else they post their message and return true
Targeted(s, c, tabId) ==
  IF tabId = 0 THEN Finish(s, c, "error")
  ELSE Return(PostRawTab(s, s.callers[c].method, tabId), c, TRUE)

\* tab?.id || tab?.targetId || null
IdOrTargetId(tab) ==
  IF tab.id # 0 THEN tab.id ELSE IF tab.targetId # 0 THEN tab.targetId ELSE 0

\* resolveTabId(indexArg) up to its first await; indexArg is <<>> (null),
\* <<N>> (the integer N) or <<"id", t>> (the non-empty string t)
ResolveTabId(s, c) ==
  LET indexArg == s.callers[c].arg
  IN IF Len(indexArg) = 2 THEN Targeted(s, c, indexArg[2])
     ELSE Request(s, c, "getTabs", "resolveTabs")

\* resolveTabId after `await getTabs`
ResolveTabsSettled(s, c) ==
  LET indexArg == s.callers[c].arg
      got == GetTabsSettled(s, c)
      tabs == got.tabs
      requested == IF Len(indexArg) = 1 THEN indexArg[1] ELSE 0
      normalized == IF requested < 0 THEN Len(tabs) + requested ELSE requested
      safeIndex == Max(0, Min(Len(tabs) - 1, normalized))
  IN IF Len(tabs) > 0 THEN Targeted(got.state, c, IdOrTargetId(tabs[safeIndex + 1]))
     ELSE Request(got.state, c, "getActiveTab", "activeTab")

\* resolveTabId after `await self._request('getActiveTab', {}).catch(() => null)`
ActiveTabSettled(s, c) ==
  LET me == s.callers[c]
  IN Targeted(s, c, IF me.out = "error" \/ me.value = <<>> THEN 0
                    ELSE IdOrTargetId(me.value[1]))

\* `while (Date.now() < deadline)` of waitForTabCount and waitForTabUrl: the
\* next poll, or the failure after the loop
WaitLoop(s, c) ==
  IF s.now < s.callers[c].deadline THEN Request(s, c, "getTabs", "waitPoll")
  ELSE Finish(s, c, "error")

\* waitForTabCount(expectedCount, {timeoutMs}) and waitForTabUrl(tabIndex,
\* {allowBlank, expectIncludes, timeoutMs}) up to their first await; the
\* arguments are <<expectedCount, timeoutMs>> and <<tabIndex, allowBlank,
\* expectIncludes given, timeoutMs>>
WaitCall(s, c) ==
  LET arg == s.callers[c].arg
      timeoutMs == arg[Len(arg)]
  IN WaitLoop([s EXCEPT !.callers[c].deadline = s.now + timeoutMs], c)

\* a faulty poll of waitForTabCount: it resolves as soon as there are tabs
WaitPollSettledAnyTabs(s, c) ==
  LET got == GetTabsSettled(s, c)
  IN IF Len(got.tabs) > 0 THEN Return(got.state, c, Len(got.tabs))
     ELSE [got.state EXCEPT !.callers[c] = [@ EXCEPT !.pc = "sleeping", !.stage = "",
                                                     !.out = "", !.value = <<>>]]

\* the body of the loop after `await getTabs`: return, or sleep for pollMs.
\* A url is 0 (blank), 1 (it contains expectIncludes) or 2 (it does not)
WaitPollSettled(s, c) ==
  LET me == s.callers[c]
      got == GetTabsSettled(s, c)
      tabs == got.tabs
      sleeping == [got.state EXCEPT !.callers[c] = [@ EXCEPT !.pc = "sleeping", !.stage = "",
                                                             !.out = "", !.value = <<>>]]
  IN IF me.method = "waitForTabCount"
     THEN IF Len(tabs) = me.arg[1] THEN Return(got.state, c, Len(tabs)) ELSE sleeping
     ELSE IF Len(tabs) > 0
     THEN LET safeIndex == Max(0, Min(Len(tabs) - 1, me.arg[1]))
              url == tabs[safeIndex + 1].url
          IN IF (me.arg[2] \/ url # 0) /\ (~me.arg[3] \/ url = 1)
             THEN Return(got.state, c, <<safeIndex, IdOrTargetId(tabs[safeIndex + 1]), url>>)
             ELSE sleeping
     ELSE sleeping

\* the setTimeout callback between two polls and the loop head after it: the
\* polling interval has elapsed
PollTimerCallback(s, c) == WaitLoop([s EXCEPT !.now = @ + 1], c)

\* _legacyCall(method, args): getTabs and closeAllTabs query the peer's tabs,
\* closeTab and reload resolve their target tab, waitForTabCount and
\* waitForTabUrl poll the tabs, createTab is fire-and-forget
LegacyCall(s, c) ==
  IF s.callers[c].method \in {"getTabs", "closeAllTabs"}
  THEN Request(s, c, "getTabs", "getTabs")
  ELSE IF s.callers[c].method \in {"closeTab", "reload"}
  THEN ResolveTabId(s, c)
  ELSE IF s.callers[c].method \in {"waitForTabCount", "waitForTabUrl"}
  THEN WaitCall(s, c)
  ELSE Finish(PostRaw(s, "createTab"), c, "ok")

\* callApi after transport resolution: the dispatch by mode
CallApiDispatch(s, c) ==
  IF s.transportMode = "legacy" THEN LegacyCall(s, c)
  ELSE Request(s, c, "bbx-api-call", "call")

\* callApi after `await this._ensureReadyForApi()`
CallApiAfterGate(s, c) ==
  IF s.transportMode = "unknown" THEN ResolveTransport(s, c)
  ELSE CallApiDispatch(s, c)

\* listApiMethods after `await this._ensureReadyForApi()`
ListAfterGate(s, c) ==
  IF s.transportMode = "legacy"
  THEN Finish([s EXCEPT !.apiMethods = LegacyMethodList], c, "ok")
  ELSE Request(s, c, "bbx-api-list", "list")

\* listApiMethods after `await this._request('bbx-api-list', ...)`
ListSettled(s, c) ==
  LET out == s.callers[c].out
      listed == IF out \in {"ok", "ok methods"}
                THEN [s EXCEPT !.apiMethods = IF out = "ok methods" THEN PeerMethodList ELSE {},
                               !.transportMode = "modern"]
                ELSE [s EXCEPT !.transportMode = "legacy",
                               !.apiMethods = LegacyMethodList]
  IN Finish(listed, c, "ok")

\* listApiMethods(options) up to its first await
ListApiMethodsCall(s, c) ==
  IF s.apiMethods # {} THEN Finish(s, c, "ok")
  ELSE EnsureReadyForApi(s, c)

\* health({timeoutMs}) up to its first await
HealthCall(s, c) ==
  IF ~HasContentWindow(s) THEN Finish(s, c, "error")
  ELSE IF s.transportMode = "modern" THEN Request(s, c, "bbx-api-call", "healthKnown")
  ELSE IF s.transportMode = "legacy" THEN Request(s, c, "getTabCount", "healthKnown")
  ELSE Request(s, c, "bbx-api-call", "healthModern")

\* health after one of its awaits
HealthSettled(s, c) ==
  LET ok == s.callers[c].out \in {"ok", "ok methods"}
      stage == s.callers[c].stage
  IN IF stage = "healthKnown" THEN Finish(s, c, IF ok THEN "ok" ELSE "error")
     ELSE IF stage = "healthModern"
     THEN IF ok THEN Finish([s EXCEPT !.transportMode = "modern"], c, "ok")
          ELSE Request(s, c, "getTabCount", "healthLegacy")
     ELSE IF ok THEN Finish([s EXCEPT !.transportMode = "legacy"], c, "ok")
          ELSE Finish(s, c, "error")

\* the continuation of the await caller c is suspended at
ContinueCall(s, c) ==
  LET me == s.callers[c]
  IN IF me.pc = "readyReleased"
     THEN IF me.op = "whenReady" THEN Finish(s, c, "ok")
          ELSE [s EXCEPT !.callers[c].pc = "gateDone"]
     ELSE IF me.pc = "readyTimedOut"
     THEN IF me.op = "whenReady" THEN Finish(s, c, "error")
          ELSE EnsureReadyCatch(s, c)
     ELSE IF me.pc = "gateDone"
     THEN IF me.op = "callApi" THEN CallApiAfterGate(s, c) ELSE ListAfterGate(s, c)
     ELSE IF me.pc = "transportResolved"
     THEN CallApiDispatch(s, c)
     ELSE IF me.stage = "probe" THEN ResolveTransportSettled(s, c)
     ELSE IF me.stage = "call" THEN Finish(s, c, IF me.out = "error" THEN "error" ELSE "ok")
     ELSE IF me.stage = "list" THEN ListSettled(s, c)
     ELSE IF me.stage = "getTabs" THEN LegacySettled(s, c)
     ELSE IF me.stage = "resolveTabs" THEN ResolveTabsSettled(s, c)
     ELSE IF me.stage = "activeTab" THEN ActiveTabSettled(s, c)
     ELSE IF me.stage = "waitPoll" THEN WaitPollSettled(s, c)
     ELSE HealthSettled(s, c)

(***************************************************************************)
(* History kept beside the program's state: a retry timer is stale once    *)
(* the prober has become ready or stopped while it was pending, and old    *)
(* once the login-link has changed or refresh() was called while it was    *)
(* pending; the count of reloads the retry timers performed.               *)
(***************************************************************************)
MarkSessionReset(s, cause) == Emit([s EXCEPT !.sessionProbes = 0], Fx("reset", cause, 0, 0, 0, ""))

MarkCancel(s, cause) == Emit(s, Fx("cancel", cause, 0, 0, 0, ""))

Observe(old, new) ==
  LET stopped == new.reconnectStopped /\ ~old.reconnectStopped
      left == (new.isReady /\ ~old.isReady) \/ stopped
      armed == IF stopped THEN [new EXCEPT !.stopArmed = TRUE] ELSE new
      timed == IF left /\ new.retryTimer # <<>>
               THEN [armed EXCEPT !.retryTimer = <<[new.retryTimer[1] EXCEPT !.stale = TRUE]>>]
               ELSE armed
      renewed == \E e \in new.fx : e.ev = "reset" /\ e.kind \in {"source", "refresh"}
      dated == IF renewed /\ old.retryTimer # <<>> /\ timed.retryTimer # <<>>
               THEN [timed EXCEPT !.retryTimer = <<[timed.retryTimer[1] EXCEPT !.old = TRUE]>>]
               ELSE timed
      \* a reset is marked (m = 1) when the state it reset was ready, with a
      \* resolved mode, advertised methods and cached tabs
      hadSession == /\ old.isReady /\ old.transportMode # "unknown"
                    /\ old.apiMethods # {} /\ old.legacyTabsCache # <<>>
  IN IF hadSession
     THEN [dated EXCEPT !.fx = {IF e.ev = "reset" THEN [e EXCEPT !.m = 1] ELSE e : e \in @}]
     ELSE dated

\* no continuation of an await is queued: callbacks of events and timers
\* run only then
Runnable(s, c) == s.callers[c].pc \in {"readyReleased", "readyTimedOut", "gateDone", "reqSettled", "transportResolved"}
NoMicrotasks(s) == \A c \in Callers : ~Runnable(s, c)

(***************************************************************************)
(* Actions.                                                                *)
(***************************************************************************)
\* the iframe's load event after an assignment of its src
HandleLoad ==
  /\ st.connected /\ st.loadPending /\ NoMicrotasks(st)
  /\ st' = Observe(st, MarkSessionReset(
             HandleLoadEvent([Begin(st) EXCEPT !.loadPending = FALSE]), "load"))

\* one period of the probe interval elapses; a pending retry timer (at most
\* 8000 ms) fires before a later interval reaches the threshold (10000 ms)
InitPingTick ==
  /\ st.initPingTimer /\ NoMicrotasks(st)
  /\ (st.retryTimer # <<>> => st.initPingCount + 1 < iframeRetryPingThreshold)
  /\ st' = Observe(st, InitPingCallback(Begin(st)))

\* the backoff delay of a retry elapses
RetryTimerFire ==
  /\ st.retryTimer # <<>> /\ NoMicrotasks(st)
  /\ LET timer == st.retryTimer[1]
         fired == RetryTimerCallback([Begin(st) EXCEPT !.retryTimer = <<>>], timer)
     IN st' = Observe(st, [fired EXCEPT !.retriesDone =
                 IF fired.fx # {} THEN Min(@ + 1, iframeRetryMax + 1) ELSE @])

\* connectedCallback()
Connect ==
  /\ ~st.connected
  /\ st' = Observe(st, ConnectedCallback(Begin(st)))

\* disconnectedCallback()
Disconnect ==
  /\ st.connected
  /\ st' = Observe(st, MarkCancel(DisconnectedCallback(Begin(st)), "disconnect"))

\* the host page sets or removes the login-link attribute
SetLoginLink ==
  \E newValue \in 0..NumLinks :
    /\ newValue # st.loginLink
    /\ st' = Observe(st, [MarkSessionReset(LoginLinkChanged(Begin(st), newValue), "source")
                            EXCEPT !.stopArmed = FALSE])

\* refresh()
Refresh ==
  st' = Observe(st, IF st.src = 0 THEN Begin(st)
                    ELSE [MarkSessionReset(RefreshCall(Begin(st)), "refresh")
                            EXCEPT !.stopArmed = FALSE])

\* stopReconnectAttempts()
Stop ==
  st' = Observe(st, [MarkCancel(StopReconnectAttempts(Begin(st), "manual-stop"), "stop")
                       EXCEPT !.stopArmed = TRUE])

\* the page in the iframe navigates by itself: another load event
PeerNavigated ==
  /\ st.connected /\ st.src # 0 /\ ~st.loadPending /\ NoMicrotasks(st)
  /\ st' = Observe(st, MarkSessionReset(HandleLoadEvent(Begin(st)), "load"))

\* the host page calls callApi(method, ...args)
CallApiBy(c) ==
  /\ st.callers[c].pc = "idle"
  /\ st' = Observe(st, EnsureReadyForApi([Begin(st) EXCEPT !.callers[c].op = "callApi"], c))

CallApi == \E c \in Callers : CallApiBy(c)

\* the host page calls whenReady()
WhenReadyBy(c) ==
  /\ st.callers[c].pc = "idle"
  /\ st' = Observe(st, WhenReadyCall([Begin(st) EXCEPT !.callers[c].op = "whenReady"], c))

WhenReady == \E c \in Callers : WhenReadyBy(c)

\* the host page calls listApiMethods()
ListApiMethodsBy(c) ==
  /\ st.callers[c].pc = "idle"
  /\ st' = Observe(st, ListApiMethodsCall([Begin(st) EXCEPT !.callers[c].op = "listApiMethods"], c))

ListApiMethods == \E c \in Callers : ListApiMethodsBy(c)

\* the host page calls health()
HealthBy(c) ==
  /\ st.callers[c].pc = "idle"
  /\ st' = Observe(st, HealthCall([Begin(st) EXCEPT !.callers[c].op = "health"], c))

Health == \E c \in Callers : HealthBy(c)

\* the timeout of the race in whenReady elapses
ReadyTimeoutBy(c) ==
  /\ st.callers[c].pc \in {"waitReady", "waitOrphan"} /\ NoMicrotasks(st)
  /\ st' = [Begin(st) EXCEPT !.callers[c].pc = "readyTimedOut"]

ReadyTimeout == \E c \in Callers : ReadyTimeoutBy(c)

\* the timeout of a request elapses
RequestTimeout ==
  \E requestId \in st.reqTimers :
    /\ NoMicrotasks(st)
    /\ st' = Observe(st, RequestTimeoutCallback(
                 [Begin(st) EXCEPT !.reqTimers = @ \ {requestId}], requestId))

\* a queued continuation runs
ContinueBy(c) ==
  /\ Runnable(st, c)
  /\ st' = Observe(st, ContinueCall(Begin(st), c))

Continue == \E c \in Callers : ContinueBy(c)

\* the message event of a message the page in the iframe posted
Deliver(m) ==
  /\ st.connected /\ st.src # 0 /\ NoMicrotasks(st)
  /\ st' = Observe(st, HandleMessage(Begin(st), m))

\* the peer answers a request it was sent: with data, with a method list or
\* with an error
PeerResponse ==
  \E requestId \in 1..st.requestSeq, answer \in {"data", "methods", "error"} :
    Deliver(Message(TRUE, PeerOrigin, "bbx-api-response", requestId, answer = "error",
                    IF answer = "methods" THEN <<PeerMethodList>> ELSE <<>>, NoDetail))

\* the peer signals readiness: tab-api-ready, or bbx-api-ready with or
\* without a method list
PeerReady ==
  \E signal \in {<<"tab-api-ready", <<>>>>, <<"bbx-api-ready", <<>>>>,
                 <<"bbx-api-ready", <<{}>>>>, <<"bbx-api-ready", <<PeerMethodList>>>>} :
    /\ st.connected /\ st.src # 0 /\ NoMicrotasks(st)
    /\ LET m == Message(TRUE, PeerOrigin, signal[1], 0, FALSE, signal[2], NoDetail)
           handled == HandleMessage(Begin(st), m)
       IN st' = Observe(st, IF ValidateIncomingOrigin(st, PeerOrigin)
                            THEN [handled EXCEPT !.stopArmed = FALSE]
                            ELSE handled)

(***************************************************************************)
(* The element from its construction on (no parent-origin attribute), with *)
(* the host page calling it, the peer answering, signalling and reloading, *)
(* and the timeouts of requests and of readiness waits elapsing, in any    *)
(* order.  The probe interval is started and stopped but its periods are   *)
(* the matter of SpecProber and SpecNoSignal.                              *)
(***************************************************************************)
Init == st = Constructed("*")

Next ==
  \/ Connect \/ Disconnect \/ SetLoginLink \/ Refresh \/ Stop
  \/ HandleLoad \/ PeerNavigated
  \/ CallApi \/ WhenReady \/ ListApiMethods \/ Health
  \/ ReadyTimeout \/ RequestTimeout \/ Continue
  \/ PeerResponse \/ PeerReady

Spec == Init /\ [][Next]_vars

(***************************************************************************)
(* Tab notifications of the peer.                                          *)
(***************************************************************************)
\* the index hints a notification may carry: none, negative, in range, past
\* the end
IndexHints == {<<>>} \cup {<<i>> : i \in {0 - 1, 0, NumTabs + 1}}

\* the data of a notification about tab t, its identifier under field
DetailOf(t, field, index) ==
  [id |-> IF field = "id" THEN t ELSE 0,
   tabId |-> IF field = "tabId" THEN t ELSE 0,
   targetId |-> IF field = "targetId" THEN t ELSE 0,
   index |-> index, url |-> 0]

\* the field a notification carries its tab's identifier under
TabFields == {"id", "tabId", "targetId"}

\* the last ones carry no identifier
TabDetails ==
  {DetailOf(t, field, index) : t \in TabIds, field \in TabFields, index \in IndexHints}
  \cup {DetailOf(0, "id", index) : index \in IndexHints}

TabMessage(type, detail) ==
  Message(TRUE, PeerOrigin, type, 0, FALSE, <<>>, detail)

\* a tab-created, tab-updated or tab-closed notification, about any tab
TabNotification ==
  \E type \in TabTypes, detail \in TabDetails : Deliver(TabMessage(type, detail))

\* the notifications of a tab's life, in its order: created, updated any
\* number of times, closed
TabCreated ==
  \E t \in TabIds, field \in TabFields, index \in IndexHints :
    /\ st.life[t] = "new"
    /\ st.connected /\ NoMicrotasks(st)
    /\ st' = [HandleMessage(Begin(st), TabMessage("tab-created", DetailOf(t, field, index)))
                EXCEPT !.life[t] = "open"]

TabUpdated ==
  \E t \in TabIds, field \in TabFields, index \in IndexHints :
    /\ st.life[t] = "open"
    /\ st.connected /\ NoMicrotasks(st)
    /\ st' = HandleMessage(Begin(st), TabMessage("tab-updated", DetailOf(t, field, index)))

TabClosed ==
  \E t \in TabIds, field \in TabFields, index \in IndexHints :
    /\ st.life[t] = "open"
    /\ st.connected /\ NoMicrotasks(st)
    /\ st' = [HandleMessage(Begin(st), TabMessage("tab-closed", DetailOf(t, field, index)))
                EXCEPT !.life[t] = "closed"]

(***************************************************************************)
(* An element created with a login link and connected.                     *)
(***************************************************************************)
InitConnected == st = ConnectedCallback(LoginLinkChanged(Constructed("*"), 1))

\* the tab cache under any sequence of notifications and peer reloads
NextTabs == TabNotification \/ HandleLoad \/ PeerNavigated

SpecTabs == InitConnected /\ [][NextTabs]_vars

\* the tab cache under the notifications of tabs' lives
NextRoundTrip == TabCreated \/ TabUpdated \/ TabClosed

SpecRoundTrip == InitConnected /\ [][NextRoundTrip]_vars

(***************************************************************************)
(* The liveness prober with the host page stopping, refreshing and         *)
(* changing the source, and the peer signalling readiness and reloading.   *)
(***************************************************************************)
NextProber ==
  \/ HandleLoad \/ PeerNavigated \/ InitPingTick \/ RetryTimerFire
  \/ SetLoginLink \/ Refresh \/ Stop \/ PeerReady

SpecProber == InitConnected /\ [][NextProber]_vars

(***************************************************************************)
(* The peer never signals readiness: an element created with a login link  *)
(* and connected, left to its prober.                                      *)
(***************************************************************************)
InitNoSignal ==
  \E origin \in Origins, link \in Links :
    st = ConnectedCallback(LoginLinkChanged(Constructed(origin), link))

NextNoSignal == HandleLoad \/ InitPingTick \/ RetryTimerFire

SpecNoSignal ==
  /\ InitNoSignal /\ [][NextNoSignal]_vars
  /\ WF_vars(HandleLoad) /\ WF_vars(InitPingTick) /\ WF_vars(RetryTimerFire)

(***************************************************************************)
(* Properties of the pending-request ledger (Spec).                        *)
(***************************************************************************)
C1_LedgerInv ==
  \A id \in RequestIds :
    /\ st.settleCalls[id] <= 1
    /\ (id \in st.pending) = (id <= st.requestSeq /\ st.settleCalls[id] = 0)

C1_SettledStays ==
  \A id \in RequestIds :
    st.settleCalls[id] = 1 => (st'.settleCalls[id] = 1 /\ id \notin st'.pending)

\* C1: resolve or reject is called at most once for the promise of every
\* allocated request; a request is in the ledger exactly while it has not
\* been settled; and once it is settled, no later response, timeout or
\* cancellation settles it again or puts it back into the ledger.
C1_SettledOnce == []C1_LedgerInv /\ [][C1_SettledStays]_vars

\* a response that matched no ledger entry has just been handled
LateResponse == \E e \in st.fx : e.ev = "event" /\ e.kind = "bbx-api-response"

\* C1: a response has just arrived for a request that was settled before
C1_LateResponseSeen ==
  /\ LateResponse
  /\ \E id \in RequestIds : st.settleCalls[id] = 1 /\ id \notin st.pending

(***************************************************************************)
(* Properties of the transport resolver (Spec).                            *)
(***************************************************************************)
\* C2: _resolveTransport sends at most one probe request in a session
C2_SingleProbePerSession == st.sessionProbes <= 1

SessionReset(s) == \E e \in s.fx : e.ev = "reset"

C3_ModeKept ==
  (st.transportMode \in {"modern", "legacy"} /\ ~SessionReset(st'))
    => st'.transportMode = st.transportMode

\* C3: a transport mode that is modern or legacy changes only in a step
\* that is a session reset (load event, login-link change, refresh)
C3_ModeImmutable == [][C3_ModeKept]_vars

\* the reason _rejectPending is given at each cause of a reset
CauseReason(cause) ==
  CASE cause = "disconnect" -> "disconnected"
    [] cause = "source" -> "source changed"
    [] cause = "stop" -> "reconnect stopped"
    [] cause = "refresh" -> "refreshed"
    [] OTHER -> ""

\* C4: after a load event, a login-link change, refresh(),
\* stopReconnectAttempts() or a disconnect the ledger is empty, and the
\* requests it held were rejected with the reason of that cause
C4_ResetInvalidates ==
  \A e \in st.fx :
    e.ev \in {"reset", "cancel"} =>
      /\ st.pending = {}
      /\ \A x \in st.fx :
           (x.ev = "settle" /\ CauseReason(e.kind) # "") =>
             (x.kind = "cancel" /\ x.to = CauseReason(e.kind))

(***************************************************************************)
(* Properties of readiness (Spec).                                         *)
(***************************************************************************)
ProbingEffect(e) == (e.ev = "post" /\ e.kind = "init") \/ e.ev = "assign"

\* C6: from the setting of the stopped flag until a login-link change, a
\* readiness signal of the peer or refresh(), no init probe is sent, no
\* probe interval runs and the iframe's src is not assigned
C6_StoppedStaysQuiet ==
  st.stopArmed => (~st.initPingTimer /\ \A e \in st.fx : ~ProbingEffect(e))

\* C8: while the element is ready no caller is still waiting for readiness
C8_WaitersReleased ==
  st.isReady => \A c \in Callers : st.callers[c].pc \notin {"waitReady", "waitOrphan"}

(***************************************************************************)
(* Properties of the liveness prober (SpecProber, SpecNoSignal).           *)
(***************************************************************************)
RetryReload(e) == e.ev = "assign" /\ e.kind = "_retryIframeLoad"

C7_StaleTimerIdle ==
  (st.retryTimer # <<>> /\ st.retryTimer[1].stale) => \A e \in st'.fx : ~RetryReload(e)

\* C7: a retry timer that was pending when the prober became ready or
\* stopped never reloads the iframe
C7_NoStaleReload == [][C7_StaleTimerIdle]_vars

ConnectFailed(e) == e.ev = "event" /\ e.kind = "connect-failed"

\* the backoff delay of retry k, in ms
Backoff(k) == IF k = 1 THEN 2000 ELSE IF k = 2 THEN 4000 ELSE IF k = 3 THEN 6000 ELSE 8000

C5_RetriesInv ==
  /\ st.retriesDone <= 5
  /\ \A e \in st.fx :
       (e.ev = "event" /\ e.kind = "iframe-retry") =>
         /\ e.n = st.retriesDone + 1 /\ e.m = 5 /\ e.k = Backoff(e.n)
         /\ st.retryTimer # <<>> /\ st.retryTimer[1].delay = Backoff(e.n)
  /\ \A e \in st.fx :
       ConnectFailed(e) =>
         /\ e.n = 5 /\ e.m = 5 /\ st.retriesDone = 5
         /\ st.reconnectStopped /\ ~st.initPingTimer /\ st.retryTimer = <<>>

C5_Failed == \E e \in st.fx : ConnectFailed(e)

\* C5: with no readiness signal, retry k = 1..5 is announced and scheduled
\* with delay min(2000 k, 8000) ms after k - 1 reloads, connect-failed is
\* emitted with attempts = maxAttempts = 5 after exactly 5 reloads, it is
\* emitted eventually, and nothing happens after it
C5_RetriesThenFailed ==
  /\ []C5_RetriesInv
  /\ [][~C5_Failed]_vars
  /\ <>C5_Failed

\* C5: connect-failed has been emitted after 5 reloads by retry timers
C5_FailedAfterFive == C5_Failed /\ st.retriesDone = 5 /\ st.iframeRetryCount = 5

(***************************************************************************)
(* Properties of the tab cache (SpecTabs, SpecRoundTrip).                  *)
(***************************************************************************)
\* C9: every entry of the tab cache has its position in the cache, counted
\* from 0, as its index
C9_IndexIsPosition ==
  \A i \in 1..Len(st.legacyTabsCache) : st.legacyTabsCache[i].index = <<i - 1>>

\* the identifiers an entry carries, under any field
EntryIds(tab) == {tab.id, tab.tabId, tab.targetId} \ {0}

\* C9: a tab-closed notification has left two entries, the first of them
\* inserted before the other by its index hint
C9_ClosedWithHints ==
  /\ \E e \in st.fx : e.ev = "event" /\ e.kind = "tab-closed"
  /\ Len(st.legacyTabsCache) = 2
  /\ \E t \in EntryIds(st.legacyTabsCache[1]) :
       \A u \in EntryIds(st.legacyTabsCache[2]) : t > u
  /\ st.legacyTabsCache[1].index = <<0>>

OpenTabs == {t \in TabIds : st.life[t] = "open"}

\* C10: the cache holds one entry for every tab created and not yet closed
\* and no other entry, and it is empty once every tab has been closed
C10_RoundTrip ==
  LET cache == st.legacyTabsCache
  IN /\ \A i \in 1..Len(cache) : \E t \in OpenTabs : EntryIds(cache[i]) = {t}
     /\ \A t \in OpenTabs : \E i \in 1..Len(cache) : t \in EntryIds(cache[i])
     /\ \A i, j \in 1..Len(cache) : i # j => EntryIds(cache[i]) # EntryIds(cache[j])
     /\ (\A t \in TabIds : st.life[t] = "closed") => cache = <<>>

\* C10: every tab has been created and closed, and the cache is empty
C10_AllClosed ==
  /\ \A t \in TabIds : st.life[t] = "closed"
  /\ st.legacyTabsCache = <<>>
  /\ \E e \in st.fx : e.ev = "event" /\ e.kind = "tab-closed"

(***************************************************************************)
(* Inbound messages that answer nothing: a message of the peer whose       *)
(* requestId is in no ledger entry, and a message that is not the peer's   *)
(* or has another origin than the configured one.                          *)
(***************************************************************************)
\* history: the turn handled an inbound message of this class
MarkInbound(s, class, requestId) == Emit(s, Fx("inbound", class, requestId, 0, 0, ""))

\* the type fields of the messages
InboundTypes ==
  {"bbx-api-response", "tab-api-ready", "bbx-api-ready", "tab-created", "tab-closed"}

\* the payload of such a message: bbx-api-ready carries a method list, the
\* tab notifications a tab
InboundMessage(fromPeer, origin, type, requestId) ==
  Message(fromPeer, origin, type, requestId, FALSE,
          IF type = "bbx-api-ready" THEN <<PeerMethodList>> ELSE <<>>,
          IF type \in TabTypes THEN DetailOf(1, "id", <<>>) ELSE NoDetail)

\* the peer posts a message with a requestId that is not in the ledger: a
\* response that arrives after its request was settled, or an id the
\* element never allocated
PeerStray ==
  \E requestId \in RequestIds \ st.pending, type \in InboundTypes :
    /\ st.connected /\ st.src # 0 /\ NoMicrotasks(st)
    /\ st' = Observe(st, MarkInbound(
                 HandleMessage(Begin(st), InboundMessage(TRUE, PeerOrigin, type, requestId)),
                 "stray", requestId))

\* an origin that is not the peer's
ForeignOrigin == "https://other.example"

\* another window posts a message, or the peer window posts one from an
\* origin that is not the configured one; it may carry a pending requestId
Foreign ==
  \E fromPeer \in BOOLEAN, origin \in {PeerOrigin, ForeignOrigin},
     requestId \in {0} \cup st.pending, type \in InboundTypes :
    /\ st.connected /\ NoMicrotasks(st)
    /\ ~fromPeer \/ (parentOriginOf(st) # "*" /\ origin # parentOriginOf(st))
    /\ st' = Observe(st, MarkInbound(
                 HandleMessage(Begin(st), InboundMessage(fromPeer, origin, type, requestId)),
                 "foreign", requestId))

\* an element created with a login link and connected, with or without a
\* parent-origin attribute
InitInbound ==
  \E origin \in Origins : st = ConnectedCallback(LoginLinkChanged(Constructed(origin), 1))

NextInbound ==
  \/ HandleLoad \/ Health \/ Continue \/ RequestTimeout
  \/ PeerResponse \/ PeerReady \/ PeerStray \/ Foreign

SpecInbound == InitInbound /\ [][NextInbound]_vars

StrayHandled(s) == \E e \in s.fx : e.ev = "inbound" /\ e.kind = "stray"

C11_Unaffected ==
  StrayHandled(st') =>
    /\ st'.pending = st.pending /\ st'.settleCalls = st.settleCalls
    /\ st'.isReady = st.isReady /\ st'.readyResolved = st.readyResolved
    /\ st'.transportMode = st.transportMode /\ st'.apiMethods = st.apiMethods
    /\ st'.iframeRetryCount = st.iframeRetryCount /\ st'.initPingCount = st.initPingCount
    /\ st'.reconnectStopped = st.reconnectStopped /\ st'.initPingTimer = st.initPingTimer
    /\ st'.legacyTabsCache = st.legacyTabsCache

\* C11: a message of the peer whose requestId is in no ledger entry settles
\* nothing and leaves the ledger, readiness, the transport mode, the retry
\* state and the tab cache as they were, whatever its type
C11_StrayIsNoOp == [][C11_Unaffected]_vars

ForeignHandled(s) == \E e \in s.fx : e.ev = "inbound" /\ e.kind = "foreign"

C12_Dropped ==
  ForeignHandled(st') =>
    \E e \in st'.fx : st' = [st EXCEPT !.fx = {e}]

\* C12: a message that is not from the peer window, or whose origin is not
\* the configured one when one is configured, changes nothing and emits no
\* event, even with a pending requestId or a readiness type
C12_ForeignDropped == [][C12_Dropped]_vars

\* C12: a message with a pending requestId from a foreign origin has just
\* been dropped by an element with a configured origin
C12_PendingIdDropped ==
  /\ parentOriginOf(st) # "*"
  /\ \E e \in st.fx : e.ev = "inbound" /\ e.kind = "foreign" /\ e.n \in st.pending

(***************************************************************************)
(* Session resets of an element that has a session: the peer has signalled *)
(* readiness and advertised methods, listApiMethods has resolved a mode,   *)
(* tabs have been reported.                                                *)
(***************************************************************************)
\* the peer reports a tab
TabReported ==
  \E t \in TabIds : Deliver(TabMessage("tab-created", DetailOf(t, "id", <<>>)))

NextReset ==
  \/ HandleLoad \/ PeerNavigated \/ SetLoginLink \/ Refresh
  \/ PeerReady \/ TabReported
  \/ ListApiMethodsBy(1) \/ ContinueBy(1) \/ RequestTimeout \/ PeerResponse

SpecReset == InitConnected /\ [][NextReset]_vars

\* C13: in the state a load event, a login-link change or refresh() leaves,
\* the transport mode is unknown, the element is not ready, no methods are
\* advertised and the tab cache is empty
C13_ResetClears ==
  SessionReset(st) =>
    /\ st.transportMode = "unknown"
    /\ ~st.isReady
    /\ st.apiMethods = {}
    /\ st.legacyTabsCache = <<>>

\* C13: refresh() has just reset an element that was ready, with a
\* resolved mode, advertised methods and cached tabs
C13_RefreshedSession ==
  \E e \in st.fx : e.ev = "reset" /\ e.kind = "refresh" /\ e.m = 1

(***************************************************************************)
(* Properties of the transport probe and of the readiness gate (Spec).     *)
(***************************************************************************)
Succeeded(out) == out \in {"ok", "ok methods"}

\* the continuation of caller c after the probe request has settled
C14_ProbeStep ==
  \A c \in Callers :
    (/\ st.callers[c].pc = "reqSettled" /\ st.callers[c].stage = "probe"
     /\ st'.callers[c] # st.callers[c])
    => /\ st'.callers[c].pc = "transportResolved"
       /\ st'.transportMode = IF Succeeded(st.callers[c].out) THEN "modern" ELSE "legacy"
       /\ \A e \in st'.fx : e.ev # "throw"

\* _resolveTransport with a known mode
C14_KnownSendsNothing ==
  st.transportMode # "unknown" =>
    \A c \in Callers :
      LET after == ResolveTransport(st, c)
      IN /\ after.fx = st.fx /\ after.requestSeq = st.requestSeq
         /\ after.pending = st.pending /\ after.transportMode = st.transportMode
         /\ after.callers[c].pc = "transportResolved"

\* C14: when the probe request has settled, _resolveTransport returns to
\* its caller without throwing, with mode modern if the probe succeeded and
\* legacy if it failed in any way; with a known mode it sends nothing
C14_ProbeNeverFails == []C14_KnownSendsNothing /\ [][C14_ProbeStep]_vars

\* C14: _resolveTransport has returned legacy for a probe that could not be
\* sent or was cancelled, the element being disconnected
C14_LegacyWhileDisconnected ==
  /\ ~st.connected /\ st.transportMode = "legacy"
  /\ \E c \in Callers : st.callers[c].pc = "transportResolved" /\ st.callers[c].op = "callApi"

(***************************************************************************)
(* One callApi at the readiness gate, with the peer signalling readiness   *)
(* or not, and the host page refreshing.                                   *)
(***************************************************************************)
NextGate ==
  \/ CallApiBy(1) \/ ReadyTimeoutBy(1) \/ ContinueBy(1)
  \/ PeerReady \/ HandleLoad \/ Refresh
  \/ PeerResponse \/ RequestTimeout

SpecGate == InitConnected /\ [][NextGate]_vars

ReadyTimeoutEvent(e) == e.ev = "event" /\ e.kind = "ready-timeout"

\* the continuation of callApi after the race of the gate has rejected
\* (the soft timeout) or resolved (readiness)
C15_GateStep ==
  LET me == st.callers[1]
  IN /\ (me.op = "callApi" /\ me.pc = "readyTimedOut" /\ st'.callers[1] # me)
        => /\ ~st.isReady /\ st'.isReady
           /\ \E e \in st'.fx : ReadyTimeoutEvent(e)
           /\ st'.callers[1].pc = "gateDone"
     /\ (me.op = "callApi" /\ me.pc = "readyReleased" /\ st'.callers[1] # me)
        => /\ \A e \in st'.fx : ~ReadyTimeoutEvent(e)
           /\ st'.callers[1].pc = "gateDone"
     /\ (me.op = "callApi" /\ me.pc \in {"readyTimedOut", "readyReleased", "gateDone"})
        => \A e \in st'.fx : e.ev # "throw"

\* C15: a callApi waiting at the gate never throws there; when its soft
\* timeout elapses before any readiness signal, readiness is forced, a
\* ready-timeout event is emitted and the call goes on; when a readiness
\* signal came first the call goes on without a ready-timeout event
C15_GateSoftFails == [][C15_GateStep]_vars

(***************************************************************************)
(* The legacy handlers getTabs and closeAllTabs, one call, with a peer     *)
(* that answers the getTabs query with a list of its tabs, with other      *)
(* data, with an error or not at all, and announces tabs.                  *)
(***************************************************************************)
\* the host page calls callApi('getTabs')
GetTabsBy(c) ==
  /\ st.callers[c].pc = "idle"
  /\ st' = Observe(st, EnsureReadyForApi([Begin(st) EXCEPT !.callers[c].op = "callApi",
                                                           !.callers[c].method = "getTabs"], c))

\* opts.keep of closeAllTabs: absent, negative, within and past the tabs
Keeps == {<<>>} \cup {<<k>> : k \in (0 - 1)..(NumTabs + 1)}

\* the host page calls callApi('closeAllTabs', { keep })
CloseAllTabsBy(c) ==
  \E keep \in Keeps :
    /\ st.callers[c].pc = "idle"
    /\ st' = Observe(st, EnsureReadyForApi([Begin(st) EXCEPT !.callers[c].op = "callApi",
                                                             !.callers[c].method = "closeAllTabs",
                                                             !.callers[c].arg = keep], c))

\* the index fields of a list the peer returns: none, the positions, or the
\* peer's own numbering (here: counted from the end)
IndexStamps == {"none", "position", "own"}

\* the lists of tabs 1..n a peer returns, the identifiers under one field
PeerTabLists ==
  UNION {{[i \in 1..n |->
             DetailOf(i, field,
                      IF stamp = "none" THEN <<>>
                      ELSE IF stamp = "position" THEN <<i - 1>> ELSE <<n - i>>)]
          : field \in TabFields, stamp \in IndexStamps}
         : n \in 0..NumTabs}

\* the peer answers a getTabs query with a list of tabs
PeerTabs ==
  \E requestId \in st.pending, list \in PeerTabLists :
    /\ \E c \in Callers : /\ st.callers[c].req = requestId
                          /\ st.callers[c].stage \in {"getTabs", "resolveTabs"}
    /\ Deliver(Message(TRUE, PeerOrigin, "bbx-api-response", requestId, FALSE, <<>>,
                       TabList(list)))

\* the peer announces a tab, its identifier under id or under tabId
TabAnnounced ==
  \E t \in TabIds, field \in {"id", "tabId"} :
    Deliver(TabMessage("tab-created", DetailOf(t, field, <<>>)))

NextLegacy ==
  \/ HandleLoad \/ GetTabsBy(1) \/ CloseAllTabsBy(1)
  \/ ReadyTimeoutBy(1) \/ ContinueBy(1)
  \/ RequestTimeout \/ PeerResponse \/ PeerTabs \/ TabAnnounced

SpecLegacy == InitConnected /\ [][NextLegacy]_vars

\* the legacy handler of method returns in this step
LegacyReturns(method) ==
  /\ st.callers[1].method = method
  /\ st.callers[1].pc = "reqSettled" /\ st.callers[1].stage = "getTabs"
  /\ st'.callers[1].pc = "done"

C16_GetTabsStep ==
  /\ (st.callers[1].method = "getTabs" /\ st.callers[1].stage # "getTabs"
      /\ st'.callers[1].pc = "reqWait" /\ st'.callers[1].stage = "getTabs")
     => \E e \in st'.fx : e.ev = "post" /\ e.kind = "getTabs" /\ e.n = st'.callers[1].req
  /\ LegacyReturns("getTabs")
     => LET returned == st'.callers[1].value[1]
        IN /\ st.callers[1].out = "error" => returned = st.legacyTabsCache
           /\ \A i \in 1..Len(returned) : returned[i].index = <<i - 1>>
           /\ st'.legacyTabsCache = returned

\* C16: legacy getTabs sends a getTabs query; when the query fails it returns
\* the tab cache; the index of every returned entry is its position in the
\* returned list, and the tab cache is the returned list afterwards
C16_GetTabsStamped == [][C16_GetTabsStep]_vars

C17_CloseAllStep ==
  LegacyReturns("closeAllTabs")
  => LET tabs == st'.legacyTabsCache
         n == Len(tabs)
         arg == st.callers[1].arg
         keep == IF arg # <<>> THEN Max(0, arg[1]) ELSE 0
         closes == {e \in st'.fx : e.ev = "post" /\ e.kind = "closeTab"}
     IN IF n <= keep
        THEN closes = {} /\ st'.callers[1].value = <<n>>
        ELSE /\ Cardinality(closes) = n - keep
             /\ \A e \in closes : /\ e.k \in 1..(n - keep)
                                  /\ e.m = NormalizeTabId(tabs[n - e.k + 1])
             /\ st'.callers[1].value = <<keep>>

\* C17: legacy closeAllTabs({keep}) over n tabs sends nothing and returns n
\* when n <= keep; otherwise it sends one closeTab for each of the positions
\* n-1 down to keep, in that order, none for the positions below keep, and
\* returns keep
C17_CloseAllBeyondKeep == [][C17_CloseAllStep]_vars

(***************************************************************************)
(* The prober together with requests in the ledger: health checks of the   *)
(* host page, which the peer leaves unanswered, while the prober ticks,    *)
(* retries, is stopped or becomes ready.                                   *)
(***************************************************************************)
NextStop ==
  \/ HandleLoad \/ InitPingTick \/ RetryTimerFire \/ PeerReady \/ Stop
  \/ Health \/ Continue \/ RequestTimeout

SpecStop == InitConnected /\ [][NextStop]_vars

\* the host page called stopReconnectAttempts() in the turn that led to s
StopCalled(s) == \E e \in s.fx : e.ev = "cancel" /\ e.kind = "stop"

\* the promise of request id was rejected with reason in the turn that led to s
Rejected(s, id, reason) ==
  \E e \in s.fx : e.ev = "settle" /\ e.kind = "cancel" /\ e.n = id /\ e.to = reason

C18_StopStep ==
  StopCalled(st')
  => /\ st'.reconnectStopped /\ ~st'.initPingTimer
     /\ st'.pending = {}
     /\ \A id \in st.pending : Rejected(st', id, "reconnect stopped")
     /\ \A c \in Callers :
          st.callers[c].pc = "reqWait"
          => st'.callers[c].pc = "reqSettled" /\ st'.callers[c].out = "error"
     /\ StopCalled(st)
        => \E e \in st'.fx : st' = [st EXCEPT !.fx = {e}]

\* C18: stopReconnectAttempts sets the stopped flag, clears the probe
\* interval and rejects every pending request with the reason 'reconnect
\* stopped', which empties the ledger; called again right after, it leaves
\* the state as it is and rejects nothing
C18_StopIdempotent == [][C18_StopStep]_vars

\* a stop that found a request pending: its promise is rejected, its caller resumes
C18_StoppedWithPending ==
  /\ StopCalled(st)
  /\ \E id \in RequestIds : Rejected(st, id, "reconnect stopped")
  /\ \E c \in Callers : st.callers[c].pc = "reqSettled" /\ st.callers[c].out = "error"

(***************************************************************************)
(* Bounds of the prober's counters (SpecProber).                           *)
(***************************************************************************)
\* C19: the number of retries made is between 0 and iframeRetryMax, and the
\* number of probe ticks of the current cycle is at most the threshold, in
\* every state the prober reaches by load events, ticks, retry timers,
\* readiness signals, stop, refresh and changes of the source
C19_CountsBounded ==
  /\ 0 <= st.iframeRetryCount /\ st.iframeRetryCount <= iframeRetryMax
  /\ 0 <= st.initPingCount /\ st.initPingCount <= iframeRetryPingThreshold

\* both counters at their bounds: the tick that reached the threshold has
\* made the last retry
C19_BothAtBound ==
  /\ st.iframeRetryCount = iframeRetryMax
  /\ st.initPingCount = iframeRetryPingThreshold
  /\ ~st.reconnectStopped

(***************************************************************************)
(* The target origin of outbound messages (SpecInbound, which starts with  *)
(* either value of parent-origin).                                         *)
(***************************************************************************)
\* C20: every message posted to the iframe - a liveness probe, a request
\* envelope, a legacy message - has the target origin '*', whatever the
\* parent-origin attribute says
C20_TargetsAnyOrigin == \A e \in st.fx : e.ev = "post" => e.to = "*"

(***************************************************************************)
(* Properties of refresh and of retry timers across a change of session    *)
(* (SpecProber).                                                           *)
(***************************************************************************)
\* the host page called refresh(), with a source to reload, in the turn
\* that led to s
Refreshed(s) == \E e \in s.fx : e.ev = "reset" /\ e.kind = "refresh"

C21_RefreshStep ==
  Refreshed(st')
  => /\ ~st'.isReady /\ st'.transportMode = "unknown"
     /\ st'.legacyTabsCache = <<>> /\ st'.pending = {}
     /\ ~st'.reconnectStopped
     /\ st'.iframeRetryCount = 0

\* C21: after refresh() the readiness is false, the mode unknown, the tab
\* cache and the ledger empty, the stopped flag cleared and the number of
\* retries made zero, so that the prober starts again with all its retries
C21_RefreshResetsRetries == [][C21_RefreshStep]_vars

(***************************************************************************)
(* The target resolution of the legacy handlers: one closeTab (with an     *)
(* index argument) or reload (without), with a peer that lists its tabs    *)
(* and names its active tab, or fails to.                                  *)
(***************************************************************************)
\* args[0] of closeTab: none, an integer, the identifier of a tab
IndexArgs ==
  {<<>>} \cup {<<N>> : N \in (0 - NumTabs)..(NumTabs - 1)} \cup {<<"id", t>> : t \in TabIds}

\* the host page calls callApi('closeTab', indexArg)
CloseTabBy(c) ==
  \E indexArg \in IndexArgs :
    /\ st.callers[c].pc = "idle"
    /\ st' = Observe(st, EnsureReadyForApi([Begin(st) EXCEPT !.callers[c].op = "callApi",
                                                             !.callers[c].method = "closeTab",
                                                             !.callers[c].arg = indexArg], c))

\* the host page calls callApi('reload')
ReloadBy(c) ==
  /\ st.callers[c].pc = "idle"
  /\ st' = Observe(st, EnsureReadyForApi([Begin(st) EXCEPT !.callers[c].op = "callApi",
                                                           !.callers[c].method = "reload"], c))

\* the peer answers a getActiveTab query: with a tab, its identifier under
\* any field, or with an object that carries none
PeerActiveTab ==
  \E requestId \in st.pending, t \in TabIds, field \in TabFields :
    /\ \E c \in Callers : st.callers[c].req = requestId /\ st.callers[c].stage = "activeTab"
    /\ Deliver(Message(TRUE, PeerOrigin, "bbx-api-response", requestId, FALSE, <<>>,
                       DetailOf(t, field, <<>>)))

NextResolve ==
  \/ HandleLoad \/ CloseTabBy(1) \/ ReloadBy(1)
  \/ ReadyTimeoutBy(1) \/ ContinueBy(1)
  \/ RequestTimeout \/ PeerResponse \/ PeerTabs \/ PeerActiveTab

SpecResolve == InitConnected /\ [][NextResolve]_vars

\* the legacy messages posted in the turn that led to s
LegacyPosts(s) == {e \in s.fx : e.ev = "post" /\ e.n = 0 /\ e.kind \in {"closeTab", "reload"}}

C22_ResolveStep ==
  LET me == st.callers[1]
      arg == me.arg
      tabs == st'.legacyTabsCache
      n == Len(tabs)
  IN (me.method \in {"closeTab", "reload"} /\ me.pc = "reqSettled"
      /\ me.stage \in {"resolveTabs", "activeTab"} /\ st'.callers[1].pc = "done")
     => /\ \A e \in LegacyPosts(st') :
             \* an explicit index: the tab at that position of the listed tabs
             /\ (Len(arg) = 1 /\ n > 0 /\ arg[1] >= 0 - n /\ arg[1] < n)
                => e.m = IdOrTargetId(tabs[(IF arg[1] < 0 THEN n + arg[1] ELSE arg[1]) + 1])
             \* no explicit index: the tab the peer named as its active one
             /\ arg = <<>>
                => /\ me.stage = "activeTab" /\ me.value # <<>>
                   /\ e.m = IdOrTargetId(me.value[1])
        \* no identifier: the call throws and posts nothing
        /\ (\E e \in st'.fx : e.ev = "throw") <=> LegacyPosts(st') = {}

\* C22: the legacy handlers that act on a tab send their message to the tab
\* at position N of the listed tabs when given the integer N (a negative N
\* counted from the end), to the peer's active tab, which they query, when
\* given no index, and throw without sending when neither gives an identifier
C22_TargetResolved == [][C22_ResolveStep]_vars

(***************************************************************************)
(* The effect of a tab-updated notification on the tab cache (SpecTabs).   *)
(***************************************************************************)
\* the updates a peer may send: any tab detail, with or without a url
UpdateDetails == {[detail EXCEPT !.url = url] : detail \in TabDetails, url \in {0, 1}}

\* the cache after the element has handled a tab-updated notification
AfterUpdate(detail) ==
  HandleMessage(Begin(st), TabMessage("tab-updated", detail)).legacyTabsCache

\* C23: a tab-updated notification merges its fields into the entry with its
\* identifier; the entry keeps its index unless the update supplies one, and
\* then takes the supplied one; the length of the cache, the order and the
\* other entries stay; an update without identifier, or for an identifier
\* that is not cached, changes nothing
C23_UpdateMerges ==
  \A detail \in UpdateDetails :
    LET cache == st.legacyTabsCache
        after == AfterUpdate(detail)
        tabId == NormalizeTabId(detail)
        at == FindTabIndex(cache, tabId) + 1
    IN /\ Len(after) = Len(cache)
       /\ (tabId = 0 \/ at = 0) => after = cache
       /\ (tabId # 0 /\ at # 0)
          => /\ \A j \in 1..Len(cache) : j # at => after[j] = cache[j]
             /\ after[at] = SpreadTab(cache[at], detail)

(***************************************************************************)
(* The polling handlers waitForTabCount and waitForTabUrl: one call, a     *)
(* clock, and a peer that answers the polls with its tabs and their urls,  *)
(* with an error or not at all.  Timers fire and continuations run.        *)
(***************************************************************************)
\* the clock stops being advanced by itself here; polling advances it further
MaxClock == 2

\* the longest timeoutMs, in units of the polling interval
MaxTimeout == 2

Timeouts == 0..MaxTimeout

\* the most tabs a peer lists in answer to a poll
MaxListed == 2

\* the host page calls callApi('waitForTabCount', expectedCount, { timeoutMs })
WaitForTabCountBy(c) ==
  \E expectedCount \in 0..MaxListed, timeoutMs \in Timeouts :
    /\ st.callers[c].pc = "idle"
    /\ st' = Observe(st, EnsureReadyForApi(
                [Begin(st) EXCEPT !.callers[c].op = "callApi",
                                  !.callers[c].method = "waitForTabCount",
                                  !.callers[c].arg = <<expectedCount, timeoutMs>>], c))

\* the host page calls callApi('waitForTabUrl', tabIndex, { allowBlank,
\* expectIncludes, timeoutMs })
WaitForTabUrlBy(c) ==
  \E tabIndex \in {0 - 1, 1, NumTabs}, allowBlank \in BOOLEAN, includes \in BOOLEAN,
     timeoutMs \in Timeouts :
    /\ st.callers[c].pc = "idle"
    /\ st' = Observe(st, EnsureReadyForApi(
                [Begin(st) EXCEPT !.callers[c].op = "callApi",
                                  !.callers[c].method = "waitForTabUrl",
                                  !.callers[c].arg = <<tabIndex, allowBlank, includes, timeoutMs>>], c))

\* time passes
TimePasses ==
  /\ st.now < MaxClock /\ NoMicrotasks(st)
  /\ st' = [Begin(st) EXCEPT !.now = @ + 1]

\* the timer between two polls fires
PollTimerBy(c) ==
  /\ st.callers[c].pc = "sleeping" /\ NoMicrotasks(st)
  /\ st' = Observe(st, PollTimerCallback(Begin(st), c))

\* the lists of tabs a peer returns, each tab with any url
PeerUrlLists ==
  UNION {{[i \in 1..n |-> [DetailOf(i, "id", <<>>) EXCEPT !.url = urls[i]]]
          : urls \in [1..n -> 0..2]} : n \in 0..MaxListed}

\* the peer answers a poll with its tabs
PeerUrlTabs ==
  \E requestId \in st.pending, list \in PeerUrlLists :
    /\ \E c \in Callers : st.callers[c].req = requestId /\ st.callers[c].stage = "waitPoll"
    /\ Deliver(Message(TRUE, PeerOrigin, "bbx-api-response", requestId, FALSE, <<>>,
                       TabList(list)))

NextWait ==
  \/ HandleLoad \/ WaitForTabCountBy(1) \/ WaitForTabUrlBy(1)
  \/ ReadyTimeoutBy(1) \/ ContinueBy(1) \/ RequestTimeout
  \/ TimePasses \/ PollTimerBy(1) \/ PeerUrlTabs

SpecWait ==
  /\ InitConnected /\ [][NextWait]_vars
  /\ WF_vars(ReadyTimeoutBy(1)) /\ WF_vars(ContinueBy(1))
  /\ WF_vars(RequestTimeout) /\ WF_vars(PollTimerBy(1))

WaitMethods == {"waitForTabCount", "waitForTabUrl"}

\* the condition the call of caller 1 waits for, on the tabs its poll has
\* returned
WaitCondition(arg, method, tabs) ==
  IF method = "waitForTabCount" THEN Len(tabs) = arg[1]
  ELSE /\ Len(tabs) > 0
       /\ LET at == IF arg[1] < 0 THEN 1
                    ELSE IF arg[1] > Len(tabs) - 1 THEN Len(tabs) ELSE arg[1] + 1
          IN /\ tabs[at].url # 0 \/ arg[2]
             /\ arg[3] => tabs[at].url = 1

C24_PollStep ==
  LET me == st.callers[1]
      now == st'.callers[1]
      thrown == \E e \in st'.fx : e.ev = "throw"
      returned == \E e \in st'.fx : e.ev = "return"
  IN (me.method \in WaitMethods /\ now # me)
     => \* a poll has settled: the call returns if the condition holds, and
        \* sleeps if not
        /\ (me.pc = "reqSettled" /\ me.stage = "waitPoll")
           => IF WaitCondition(me.arg, me.method, st'.legacyTabsCache)
              THEN now.pc = "done" /\ returned
              ELSE now.pc = "sleeping"
        \* the interval has elapsed: the call polls before the deadline and
        \* throws from it on
        /\ me.pc = "sleeping"
           => IF st'.now < me.deadline
              THEN now.stage = "waitPoll" /\ now.pc \in {"reqWait", "reqSettled"}
              ELSE now.pc = "done" /\ thrown
        \* no poll starts at or after the deadline
        /\ (now.stage = "waitPoll" /\ me.stage # "waitPoll") => st'.now < now.deadline

WaitCalled == st.callers[1].method \in WaitMethods /\ st.callers[1].pc # "idle"

\* C24: waitForTabCount and waitForTabUrl end: a poll at which the condition
\* holds returns, a poll at which it does not is followed by a sleep, no poll
\* starts once the deadline has passed, the call throws then, and every
\* call returns or throws in the end
C24_WaitTerminates ==
  /\ [][C24_PollStep]_vars
  /\ WaitCalled ~> st.callers[1].pc = "done"

\* waitForTabUrl has returned at its second poll
C24_ReturnedAtSecondPoll ==
  /\ \E e \in st.fx : e.ev = "return" /\ e.kind = "waitForTabUrl"
  /\ st.callers[1].pc = "done" /\ st.requestSeq = 3

C25_OldTimerIdle ==
  (st.retryTimer # <<>> /\ st.retryTimer[1].old) => \A e \in st'.fx : ~RetryReload(e)

\* C25: a retry timer that was pending when the login-link changed or
\* refresh() was called never assigns the iframe's source: it neither puts
\* the previous source back nor reloads the new session
C25_NoReloadAcrossReset == [][C25_OldTimerIdle]_vars

(***************************************************************************)
(* The prober of SpecNoSignal with API calls of the host page: the peer    *)
(* stays silent, timers fire and continuations run.                        *)
(***************************************************************************)
NextProbedCalls ==
  \/ HandleLoad \/ InitPingTick \/ RetryTimerFire
  \/ CallApiBy(1) \/ ListApiMethodsBy(2)
  \/ ReadyTimeout \/ Continue \/ RequestTimeout

SpecProbedCalls ==
  /\ InitNoSignal /\ [][NextProbedCalls]_vars
  /\ WF_vars(HandleLoad) /\ WF_vars(InitPingTick) /\ WF_vars(RetryTimerFire)
  /\ WF_vars(ReadyTimeout) /\ WF_vars(Continue) /\ WF_vars(RequestTimeout)

\* the soft timeout of a call's gate leaves the prober as it is
C26_GateStep ==
  (\E e \in st'.fx : ReadyTimeoutEvent(e))
  => /\ st'.initPingTimer = st.initPingTimer
     /\ st'.iframeRetryCount = st.iframeRetryCount

\* C26: with a peer that never signals readiness, callApi and listApiMethods
\* leave the prober running: the soft timeout of their gate neither stops the
\* probe interval nor resets the number of retries, and connect-failed is
\* emitted in the end
C26_CallsKeepProber ==
  /\ [][C26_GateStep]_vars
  /\ <>C5_Failed

(***************************************************************************)
(* Requests in flight across a reload of the peer: a transport probe, a    *)
(* bbx-api-list query and a legacy getTabs query, with a peer that reloads *)
(* and answers, before or after, or not at all.                            *)
(***************************************************************************)
\* the page in the iframe reloads: the load event, with the requests in
\* flight marked
PeerReloaded ==
  /\ st.connected /\ st.src # 0 /\ ~st.loadPending /\ NoMicrotasks(st)
  /\ LET loaded == Observe(st, MarkSessionReset(HandleLoadEvent(Begin(st)), "load"))
     IN st' = [loaded EXCEPT !.callers = [c \in Callers |->
                 IF loaded.callers[c].pc = "reqWait"
                 THEN [loaded.callers[c] EXCEPT !.old = TRUE]
                 ELSE loaded.callers[c]]]

NextReload ==
  \/ HandleLoad \/ PeerReloaded
  \/ CallApiBy(1) \/ ListApiMethodsBy(1) \/ GetTabsBy(2)
  \/ ReadyTimeout \/ Continue \/ RequestTimeout
  \/ PeerResponse \/ PeerTabs

SpecReload == InitConnected /\ [][NextReload]_vars

C27_OldSettlement ==
  \A c \in Callers :
    (st.callers[c].pc = "reqSettled" /\ st.callers[c].old /\ st'.callers[c] # st.callers[c])
    => /\ st'.transportMode = st.transportMode
       /\ st'.legacyTabsCache = st.legacyTabsCache

\* C27: the response or the timeout of a request that was in flight when the
\* peer reloaded sets neither the transport mode nor the tab cache of the
\* session after the reload
C27_NewSessionUntouched == [][C27_OldSettlement]_vars

(***************************************************************************)
(* The ledger with requests of health checks, under resets, stops,         *)
(* disconnects and a peer that answers or not.  Request timers fire and    *)
(* continuations run.                                                      *)
(***************************************************************************)
NextLedger ==
  \/ Connect \/ Disconnect \/ Refresh \/ Stop
  \/ HandleLoad \/ PeerNavigated
  \/ Health \/ Continue \/ RequestTimeout \/ PeerResponse

SpecLedger ==
  /\ InitConnected /\ [][NextLedger]_vars
  /\ WF_vars(RequestTimeout) /\ WF_vars(Continue)

\* the ledger entries are the requests with a live timer
C28_TimersMatch == st.pending = st.reqTimers

\* a request gets an identifier that no request had before
C28_FreshIds ==
  /\ st'.requestSeq >= st.requestSeq
  /\ \A id \in st'.pending \ st.pending : id > st.requestSeq /\ id <= st'.requestSeq

\* C28: every ledger entry has a live timer and every live request timer
\* belongs to a ledger entry; a new request never takes an identifier used
\* before; and every request in the ledger leaves it in the end, by
\* response, timeout or cancellation, also when the peer never answers
C28_NoLeak ==
  /\ []C28_TimersMatch
  /\ [][C28_FreshIds]_vars
  /\ \A id \in RequestIds : (id \in st.pending) ~> (id \notin st.pending)

\* the last of several requests has left the ledger by its timeout
C28_TimedOutLast ==
  /\ \E e \in st.fx : e.ev = "settle" /\ e.kind = "timeout" /\ e.n = st.requestSeq
  /\ st.requestSeq >= 2 /\ st.pending = {} /\ st.reqTimers = {}

====
